---- MODULE Spec2Model ----
(***************************************************************************)
(* The observable value cell AtomValue of flipper-plugin (state/atom.tsx). *)
(*                                                                         *)
(* JavaScript is single threaded: a call of set runs notifyChanged, which  *)
(* calls every listener, and a listener may call back into the cell.  The  *)
(* model keeps that synchronous call chain as an explicit stack of frames: *)
(* the host (the code outside the cell) acts only when the stack is empty. *)
(* Values are object references into a heap, so that identity (===) and    *)
(* structural equality are different things.                               *)
(***************************************************************************)
EXTENDS Integers, Sequences, FiniteSets, TLC

VARIABLES value, listeners, heap, stack, handles, last, hist,
          trk, conv, cells, hook, table, pure

\* the cell and the history of its calls
atomVars == <<value, listeners, heap, stack, handles, last, hist>>

vars == <<value, listeners, heap, stack, handles, last, hist,
          trk, conv, cells, hook, table, pure>>

(***************************************************************************)
(* Bounds of the model.                                                    *)
(***************************************************************************)
MaxListeners == 3   \* longest listener list the host and listeners build
MaxRef == 3         \* objects the heap can hold
NumInit == 2        \* objects the host has built before the cell is used
MaxHandles == 1     \* unsubscribe handles the host keeps

Refs == 1..MaxRef

(***************************************************************************)
(* Objects: records {x, y}.  Empty marks a reference not yet in use.        *)
(***************************************************************************)
Content == [x : {1, 5}, y : {2}]
Empty == [x |-> 0, y |-> 0]
InitContent == [x |-> 1, y |-> 2]

Allocated == {r \in Refs : heap[r] # Empty}
FreshRef == IF Allocated = Refs THEN 0
            ELSE CHOOSE r \in Refs \ Allocated : \A q \in Refs \ Allocated : r <= q

(***************************************************************************)
(* Listeners are function identities; what each does when it is called is  *)
(* its body, a sequence of calls on the cell.                              *)
(***************************************************************************)
Listener == {"g", "addG", "delG", "setter", "thrower"}

SetterTarget == NumInit

Body(l) ==
  CASE l = "g"       -> << >>
    [] l = "addG"    -> << [op |-> "subscribe", l |-> "g", v |-> 0] >>
    [] l = "delG"    -> << [op |-> "unsubscribe", l |-> "g", v |-> 0] >>
    [] l = "setter"  -> << [op |-> "set", l |-> "g", v |-> SetterTarget] >>
    [] l = "thrower" -> << [op |-> "throw", l |-> "g", v |-> 0] >>

(***************************************************************************)
(* Recipes handed to update.                                               *)
(***************************************************************************)
Recipe == {"setX5", "nop", "throwAfterWrite"}

RecipeThrows(r) == r = "throwAfterWrite"

\* the draft after the recipe has run on it (for a throwing recipe: as it was
\* when the recipe threw)
ApplyRecipe(r, c) ==
  CASE r = "setX5"           -> [c EXCEPT !.x = 5]
    [] r = "nop"             -> c
    [] r = "throwAfterWrite" -> [c EXCEPT !.x = 5]

(***************************************************************************)
(* immer's produce(base, recipe): the recipe runs on a copy-on-write draft *)
(* of base.  An untouched draft gives base itself back, a modified one a   *)
(* new object, and base is never written.  A throwing recipe makes produce *)
(* throw.                                                                  *)
(***************************************************************************)
produce(base, r) ==
  LET draft == ApplyRecipe(r, heap[base]) IN
  IF RecipeThrows(r) THEN [threw |-> TRUE, ref |-> 0, heap |-> heap]
  ELSE IF draft = heap[base] THEN [threw |-> FALSE, ref |-> base, heap |-> heap]
  ELSE [threw |-> FALSE, ref |-> FreshRef,
        heap |-> IF FreshRef = 0 THEN heap ELSE [heap EXCEPT ![FreshRef] = draft]]

(***************************************************************************)
(* Array helpers of the listener list.                                     *)
(***************************************************************************)
\* (variant: lastIndexOf)
IndexOfLast(s, l) ==
  IF \E i \in 1..Len(s) : s[i] = l
  THEN CHOOSE i \in 1..Len(s) : s[i] = l /\ \A j \in (i + 1)..Len(s) : s[j] # l
  ELSE 0

\* Array.prototype.indexOf: the first index holding l, 0 (JS: -1) if none
IndexOf(s, l) ==
  IF \E i \in 1..Len(s) : s[i] = l
  THEN CHOOSE i \in 1..Len(s) : s[i] = l /\ \A j \in 1..(i - 1) : s[j] # l
  ELSE 0

\* Array.prototype.splice(idx, 1)
Splice(s, idx) == [i \in 1..(Len(s) - 1) |-> IF i < idx THEN s[i] ELSE s[i + 1]]

\* the listener list after subscribe(l)
subscribe(ls, l) == Append(ls, l)

\* the listener list after unsubscribe(l)
unsubscribe(ls, l) ==
  LET idx == IndexOf(ls, l) IN IF idx # 0 THEN Splice(ls, idx) ELSE ls

get == value

\* (variant: serialize hands out another object of the same content)
serializeCopy ==
  IF \E r \in Allocated : r # value /\ heap[r] = heap[value]
  THEN CHOOSE r \in Allocated : r # value /\ heap[r] = heap[value]
  ELSE value

serialize == get

\* (variant: comparing the contents instead of the identities)
SetChangesDeep(nextValue, cur) == heap[nextValue] # heap[cur]

\* set's test nextValue !== this.value
SetChanges(nextValue, cur) == nextValue # cur

(***************************************************************************)
(* Frames of the call chain.  A notify frame is one run of notifyChanged:  *)
(* snap is listeners.slice(), idx the position of forEach, prev the        *)
(* argument prevValue.  The other fields are history: atStart the listener *)
(* list and nv the stored value when the pass started, called the calls    *)
(* made so far with their arguments, changed whether a nested set has      *)
(* replaced the value since, added and removed the listeners subscribed    *)
(* and unsubscribed since, by the call that started the pass, late and     *)
(* gone the value of hist when it started.                                 *)
(***************************************************************************)
NewPass(prevValue, nextValue, by) ==
  [kind |-> "notify", snap |-> listeners, idx |-> 1, prev |-> prevValue,
   atStart |-> listeners, nv |-> nextValue, called |-> << >>,
   changed |-> FALSE, added |-> {}, removed |-> {}, by |-> by,
   late |-> hist.late, gone |-> hist.gone]

ListenerFrame(l) == [kind |-> "listener", l |-> l, pc |-> 1]

\* (variant: iterating the live listener list)
ForEachLive(f, live) == live

\* (variant: iterating the copy from its end)
ForEachReversed(f, live) ==
  [i \in 1..Len(f.snap) |-> f.snap[Len(f.snap) + 1 - i]]

\* the array notifyChanged iterates: the copy made by slice()
ForEachList(f, live) == f.snap

\* (variant: passing the two values the other way round)
ListenerArgsSwapped(f, cur) == <<f.prev, cur>>

\* (variant: passing the value the pass was started with)
ListenerArgsCaptured(f, cur) == <<f.nv, f.prev>>

\* the arguments notifyChanged passes: l(this.value, prevValue)
ListenerArgs(f, cur) == <<cur, f.prev>>

NoteChanged(stk) ==
  [i \in 1..Len(stk) |->
     IF stk[i].kind = "notify" THEN [stk[i] EXCEPT !.changed = TRUE] ELSE stk[i]]

NoteAdded(stk, l) ==
  [i \in 1..Len(stk) |->
     IF stk[i].kind = "notify" THEN [stk[i] EXCEPT !.added = @ \cup {l}] ELSE stk[i]]

NoteRemoved(stk, l) ==
  [i \in 1..Len(stk) |->
     IF stk[i].kind = "notify" THEN [stk[i] EXCEPT !.removed = @ \cup {l}] ELSE stk[i]]

PassRecord(f) ==
  [atStart |-> f.atStart, called |-> f.called, nv |-> f.nv, prev |-> f.prev,
   changed |-> f.changed, added |-> f.added, removed |-> f.removed,
   by |-> f.by, late |-> f.late, gone |-> f.gone]

NoPass ==
  [atStart |-> << >>, called |-> << >>, nv |-> 0, prev |-> 0,
   changed |-> FALSE, added |-> {}, removed |-> {}, by |-> "none",
   late |-> {}, gone |-> {}]

(***************************************************************************)
(* History of the registrations: late holds the listeners that were        *)
(* subscribed from inside a notification pass and are registered since,    *)
(* gone those whose only registration was removed from inside a pass and   *)
(* that were not subscribed again.  Both are kept from the calls made and  *)
(* the list they found, not from what the calls did to the list.           *)
(***************************************************************************)
Count(ls, l) == Cardinality({i \in 1..Len(ls) : ls[i] = l})

HistSubscribe(l, inPass) ==
  [late |-> IF inPass THEN hist.late \cup {l} ELSE hist.late,
   gone |-> hist.gone \ {l}]

HistUnsubscribe(l, inPass) ==
  IF Count(listeners, l) = 1
  THEN [late |-> hist.late \ {l},
        gone |-> IF inPass THEN hist.gone \cup {l} ELSE hist.gone]
  ELSE hist

(***************************************************************************)
(* History of the step just taken: the call (op) with its arguments, the   *)
(* state it found, whether it threw to its caller, the pass that returned  *)
(* with it, and for an unsubscribe the listener subscribed by the step     *)
(* before it (pSub, with the length pLen of the list before that           *)
(* subscribe).                                                             *)
(***************************************************************************)
Step(op, v, l, r, flag, pass) ==
  [op |-> op, argV |-> v, argL |-> l, argR |-> r, flag |-> flag,
   preValue |-> value, preListeners |-> listeners, preDepth |-> Len(stack),
   preContent |-> heap[value], pass |-> pass,
   pSub |-> IF op = "unsubscribe" /\ last.op = "subscribe" THEN last.argL ELSE "none",
   pLen |-> IF op = "unsubscribe" /\ last.op = "subscribe"
            THEN Len(last.preListeners) ELSE 0]

NoStep ==
  [op |-> "new", argV |-> 0, argL |-> "none", argR |-> "none", flag |-> FALSE,
   preValue |-> 0, preListeners |-> << >>, preDepth |-> 0,
   preContent |-> Empty, pass |-> NoPass, pSub |-> "none", pLen |-> 0]

(***************************************************************************)
(* new AtomValue(initialValue): the cell holds object 1, nobody listens.   *)
(***************************************************************************)
AtomInit ==
  /\ value = 1
  /\ listeners = << >>
  /\ heap = [r \in Refs |-> IF r <= NumInit THEN InitContent ELSE Empty]
  /\ stack = << >>
  /\ handles = << >>
  /\ last = NoStep
  /\ hist = [late |-> {}, gone |-> {}]

(***************************************************************************)
(* set(nextValue), called with stk as the call chain of the caller.        *)
(***************************************************************************)
set(nextValue, stk, by) ==
  IF SetChanges(nextValue, value)
  THEN /\ value' = nextValue
       /\ stack' = Append(NoteChanged(stk), NewPass(value, nextValue, by))
  ELSE /\ value' = value
       /\ stack' = stk

Idle == stack = << >>

\* the host calls set(v) with an object it holds
Set(v) ==
  /\ Idle
  /\ v \in Allocated
  /\ set(v, stack, "set")
  /\ last' = Step("set", v, "none", "none", FALSE, NoPass)
  /\ UNCHANGED <<listeners, heap, handles, hist>>

\* deserialize(v) is set(v)
Deserialize(v) ==
  /\ Idle
  /\ v \in Allocated
  /\ set(v, stack, "deserialize")
  /\ last' = Step("deserialize", v, "none", "none", FALSE, NoPass)
  /\ UNCHANGED <<listeners, heap, handles, hist>>

\* serialize() is get()
Serialize ==
  /\ Idle
  /\ last' = Step("serialize", serialize, "none", "none", FALSE, NoPass)
  /\ UNCHANGED <<value, listeners, heap, stack, handles, hist>>

\* deserialize(serialize())
RoundTrip ==
  /\ Idle
  /\ set(serialize, stack, "roundtrip")
  /\ last' = Step("roundtrip", serialize, "none", "none", FALSE, NoPass)
  /\ UNCHANGED <<listeners, heap, handles, hist>>

\* (variant: the recipe run on the held object itself)
UpdateInPlace(r) ==
  /\ Idle
  /\ heap' = [heap EXCEPT ![value] = ApplyRecipe(r, @)]
  /\ set(value, stack, "update")
  /\ last' = Step("update", value, "none", r, RecipeThrows(r), NoPass)
  /\ UNCHANGED <<listeners, handles, hist>>

\* update(recipe): this.set(produce(this.value, recipe)); flag: it threw
Update(r) ==
  /\ Idle
  /\ LET p == produce(value, r) IN
       IF p.threw
       THEN /\ UNCHANGED <<value, stack, heap>>
            /\ last' = Step("update", 0, "none", r, TRUE, NoPass)
       ELSE /\ p.ref # 0
            /\ heap' = p.heap
            /\ set(p.ref, stack, "update")
            /\ last' = Step("update", p.ref, "none", r, FALSE, NoPass)
  /\ UNCHANGED <<listeners, handles, hist>>

\* the host calls subscribe(l) and keeps the returned handle, or drops it
Subscribe(l, keep) ==
  /\ Idle
  /\ Len(listeners) < MaxListeners
  /\ listeners' = subscribe(listeners, l)
  /\ handles' = IF keep /\ Len(handles) < MaxHandles
                THEN Append(handles, [l |-> l, used |-> FALSE])
                ELSE handles
  /\ last' = Step("subscribe", 0, l, "none", FALSE, NoPass)
  /\ hist' = HistSubscribe(l, FALSE)
  /\ UNCHANGED <<value, heap, stack>>

\* the host calls unsubscribe(l)
Unsubscribe(l) ==
  /\ Idle
  /\ listeners' = unsubscribe(listeners, l)
  /\ last' = Step("unsubscribe", 0, l, "none", FALSE, NoPass)
  /\ hist' = HistUnsubscribe(l, FALSE)
  /\ UNCHANGED <<value, heap, stack, handles>>

\* the host calls a handle it kept: () => this.unsubscribe(listener);
\* flag: the handle had been called before
CallHandle(i) ==
  /\ Idle
  /\ i \in 1..Len(handles)
  /\ listeners' = unsubscribe(listeners, handles[i].l)
  /\ handles' = [handles EXCEPT ![i].used = TRUE]
  /\ last' = Step("handle", 0, handles[i].l, "none", handles[i].used, NoPass)
  /\ hist' = HistUnsubscribe(handles[i].l, FALSE)
  /\ UNCHANGED <<value, heap, stack>>

\* the host lets go of a handle
DropHandle(i) ==
  /\ Idle
  /\ i \in 1..Len(handles)
  /\ handles' = Splice(handles, i)
  /\ last' = Step("drop", 0, handles[i].l, "none", FALSE, NoPass)
  /\ UNCHANGED <<value, listeners, heap, stack, hist>>

(***************************************************************************)
(* The running call chain.                                                 *)
(***************************************************************************)
Top == stack[Len(stack)]
Below == SubSeq(stack, 1, Len(stack) - 1)

InPass == stack # << >> /\ Top.kind = "notify"
InListener == stack # << >> /\ Top.kind = "listener"

\* forEach calls the next listener: l(this.value, prevValue)
InvokeNext ==
  /\ InPass
  /\ Top.idx <= Len(ForEachList(Top, listeners))
  /\ LET l == ForEachList(Top, listeners)[Top.idx]
         args == ListenerArgs(Top, value)
         f == [Top EXCEPT !.idx = @ + 1,
                          !.called = Append(@, [l |-> l, a1 |-> args[1],
                                                a2 |-> args[2],
                                                after |-> Top.changed])]
     IN /\ stack' = Below \o <<f, ListenerFrame(l)>>
        /\ last' = Step("invoke", args[1], l, "none", FALSE, NoPass)
  /\ UNCHANGED <<value, listeners, heap, handles, hist>>

\* forEach is through: notifyChanged, and the set that called it, return
PassReturn ==
  /\ InPass
  /\ Top.idx > Len(ForEachList(Top, listeners))
  /\ stack' = Below
  /\ last' = Step("return", 0, "none", "none", FALSE, PassRecord(Top))
  /\ UNCHANGED <<value, listeners, heap, handles, hist>>

NextOp == Body(Top.l)[Top.pc]
Advanced == Below \o <<[Top EXCEPT !.pc = @ + 1]>>

\* a running listener subscribes another listener (if there is room)
ListenerSubscribes ==
  /\ InListener /\ Top.pc <= Len(Body(Top.l)) /\ NextOp.op = "subscribe"
  /\ IF Len(listeners) < MaxListeners
     THEN /\ listeners' = subscribe(listeners, NextOp.l)
          /\ stack' = NoteAdded(Advanced, NextOp.l)
          /\ hist' = HistSubscribe(NextOp.l, TRUE)
          /\ last' = Step("subscribe", 0, NextOp.l, "none", FALSE, NoPass)
     ELSE /\ listeners' = listeners
          /\ stack' = Advanced
          /\ hist' = hist
          /\ last' = Step("skip", 0, NextOp.l, "none", FALSE, NoPass)
  /\ UNCHANGED <<value, heap, handles>>

\* a running listener unsubscribes another listener
ListenerUnsubscribes ==
  /\ InListener /\ Top.pc <= Len(Body(Top.l)) /\ NextOp.op = "unsubscribe"
  /\ listeners' = unsubscribe(listeners, NextOp.l)
  /\ stack' = IF Count(listeners, NextOp.l) > 0
               THEN NoteRemoved(Advanced, NextOp.l) ELSE Advanced
  /\ last' = Step("unsubscribe", 0, NextOp.l, "none", FALSE, NoPass)
  /\ hist' = HistUnsubscribe(NextOp.l, TRUE)
  /\ UNCHANGED <<value, heap, handles>>

\* a running listener calls set
ListenerSets ==
  /\ InListener /\ Top.pc <= Len(Body(Top.l)) /\ NextOp.op = "set"
  /\ set(NextOp.v, Advanced, "set")
  /\ last' = Step("set", NextOp.v, "none", "none", FALSE, NoPass)
  /\ UNCHANGED <<listeners, heap, handles, hist>>

\* (variant: notifyChanged catches what a listener throws and goes on)
ListenerThrowsCaught ==
  /\ InListener /\ Top.pc <= Len(Body(Top.l)) /\ NextOp.op = "throw"
  /\ stack' = Below
  /\ last' = Step("throw", 0, Top.l, "none", FALSE, PassRecord(stack[Len(stack) - 1]))
  /\ UNCHANGED <<value, listeners, heap, handles, hist>>

\* a running listener throws: nothing on the call chain catches it, the
\* top-level call throws to the host; the step records the pass it cut short
ListenerThrows ==
  /\ InListener /\ Top.pc <= Len(Body(Top.l)) /\ NextOp.op = "throw"
  /\ stack' = << >>
  /\ last' = Step("throw", 0, Top.l, "none", TRUE, PassRecord(stack[Len(stack) - 1]))
  /\ UNCHANGED <<value, listeners, heap, handles, hist>>

\* a running listener returns
ListenerReturn ==
  /\ InListener /\ Top.pc > Len(Body(Top.l))
  /\ stack' = Below
  /\ last' = Step("done", 0, Top.l, "none", FALSE, NoPass)
  /\ UNCHANGED <<value, listeners, heap, handles, hist>>

Running ==
  \/ InvokeNext
  \/ PassReturn
  \/ ListenerSubscribes
  \/ ListenerUnsubscribes
  \/ ListenerSets
  \/ ListenerThrows
  \/ ListenerReturn

(***************************************************************************)
(* What the properties speak about.                                        *)
(***************************************************************************)
\* the notification passes in flight, and the one that has just returned
InFlight == {PassRecord(stack[i]) : i \in {j \in 1..Len(stack) : stack[j].kind = "notify"}}
Returned == IF last.op = "return" THEN {last.pass} ELSE {}
Passes == InFlight \cup Returned

\* the listeners a pass has called, in the order of the calls
CalledListeners(p) == [i \in 1..Len(p.called) |-> p.called[i].l]

\* the step just taken was a call that started a pass for old value o
StartedPass(o) ==
  /\ Len(stack) = last.preDepth + 1
  /\ Top.kind = "notify"
  /\ Top.idx = 1
  /\ Top.called = << >>
  /\ Top.prev = o
  /\ Top.snap = listeners

\* the step just taken left the cell as it found it and started no pass
NoEffect ==
  /\ value = last.preValue
  /\ listeners = last.preListeners
  /\ Len(stack) = last.preDepth

\* post is pre without its first entry f, or pre itself if it holds no f
RemovedFirst(pre, post, f) ==
  IF \E i \in 1..Len(pre) : pre[i] = f
  THEN \E i \in 1..Len(pre) :
         /\ pre[i] = f
         /\ \A j \in 1..(i - 1) : pre[j] # f
         /\ Len(post) = Len(pre) - 1
         /\ \A k \in 1..Len(post) : post[k] = IF k < i THEN pre[k] ELSE pre[k + 1]
  ELSE post = pre

(***************************************************************************)
(* C1: set(v), deserialize(v) and an update that derives v start a         *)
(* notification pass if and only if v is not identical to the value held;  *)
(* with an identical v the call changes neither the value nor the          *)
(* listener list and calls no listener; otherwise v is stored and a pass   *)
(* over the registered listeners starts with the replaced value as old.    *)
(***************************************************************************)
C1_NotifyIffChanged ==
  (last.op \in {"set", "deserialize", "update"} /\ ~last.flag) =>
    IF last.argV # last.preValue
    THEN /\ value = last.argV
         /\ listeners = last.preListeners
         /\ StartedPass(last.preValue)
    ELSE NoEffect

\* a set of the held value with listeners registered
C1_Witness ==
  /\ last.op = "set"
  /\ last.argV = last.preValue
  /\ listeners # << >>

\* a set of another object with the same content, which does notify
C1_WitnessChanged ==
  /\ last.op = "set"
  /\ last.argV # last.preValue
  /\ heap[last.argV] = last.preContent
  /\ listeners # << >>

(***************************************************************************)
(* C2: a pass calls exactly the entries of the listener list as it stood   *)
(* when the pass started, once per entry and in subscription order (an     *)
(* entry registered k times is called k times): at any moment the calls    *)
(* made are a prefix of that list, and when set returns they are all of    *)
(* it.                                                                     *)
(***************************************************************************)
C2_PassCallsSnapshotInOrder ==
  /\ \A p \in Passes :
       /\ Len(p.called) <= Len(p.atStart)
       /\ CalledListeners(p) = SubSeq(p.atStart, 1, Len(p.called))
  /\ \A p \in Returned : CalledListeners(p) = p.atStart

\* a pass over different listeners, one of them registered twice, returned
C2_Witness ==
  /\ last.op = "return"
  /\ Len(last.pass.atStart) = 3
  /\ last.pass.atStart[1] # last.pass.atStart[2]
  /\ last.pass.atStart[2] = last.pass.atStart[3]

(***************************************************************************)
(* C3 as claimed: every call of a listener in the pass of a set(n) that    *)
(* replaced o gets the arguments (n, o).                                   *)
(***************************************************************************)
C3_ArgsAreNewAndOld ==
  \A p \in Passes : \A i \in 1..Len(p.called) :
    p.called[i].a1 = p.nv /\ p.called[i].a2 = p.prev

(***************************************************************************)
(* C3 as amended: every call of a listener in the pass of a set(n) that    *)
(* replaced o gets (c, o), c being the value the cell holds at the moment  *)
(* of the call; c is n for every call made before a listener of the pass   *)
(* has itself replaced the value.                                          *)
(***************************************************************************)
C3_ArgsAreCurrentAndOld ==
  /\ \A p \in Passes : \A i \in 1..Len(p.called) :
       /\ p.called[i].a2 = p.prev
       /\ ~p.called[i].after => p.called[i].a1 = p.nv
  /\ last.op = "invoke" =>
       /\ last.argV = get
       /\ stack[Len(stack) - 1].called[Len(stack[Len(stack) - 1].called)].a1 = get

\* a listener called after an earlier listener of the same pass replaced the
\* value: it gets the value of the nested set
C3_Witness ==
  \E p \in Passes : \E i \in 1..Len(p.called) :
    p.called[i].after /\ p.called[i].a1 # p.nv

(***************************************************************************)
(* C4: a listener subscribed while a pass is in flight is not called by    *)
(* that pass (the pass calls it no more often than it was registered when  *)
(* the pass started), and for as long as it stays registered every later   *)
(* pass has it in its list and calls it.                                   *)
(***************************************************************************)
C4_SubscribedDuringPass ==
  /\ \A p \in Passes : \A g \in p.added :
       Count(CalledListeners(p), g) <= Count(p.atStart, g)
  /\ \A p \in Passes : \A g \in p.late : Count(p.atStart, g) > 0
  /\ \A p \in Returned : \A g \in p.late : Count(CalledListeners(p), g) > 0

\* a later pass that has called a listener subscribed during an earlier one
C4_Witness ==
  /\ last.op = "return"
  /\ "g" \in last.pass.late
  /\ Count(CalledListeners(last.pass), "g") = 1
  /\ last.pass.atStart[1] = "addG"

\* a pass during which a listener not yet registered was subscribed
C4_WitnessSamePass ==
  /\ last.op = "return"
  /\ "g" \in last.pass.added
  /\ Count(last.pass.atStart, "g") = 0
  /\ Count(listeners, "g") = 1

(***************************************************************************)
(* C5: a listener of the list a pass started with that is unsubscribed     *)
(* while the pass is in flight is still called by that pass, and a         *)
(* listener whose only registration was removed during a pass is called by *)
(* no later pass until it is subscribed again.                             *)
(***************************************************************************)
C5_UnsubscribedDuringPass ==
  /\ \A p \in Returned : \A g \in p.removed :
       Count(CalledListeners(p), g) = Count(p.atStart, g)
  /\ \A p \in Passes : \A g \in p.gone : Count(CalledListeners(p), g) = 0

\* delG removed g before g's turn, and the pass called g all the same
C5_Witness ==
  /\ last.op = "return"
  /\ "g" \in last.pass.removed
  /\ last.pass.atStart = <<"delG", "g">>
  /\ CalledListeners(last.pass) = <<"delG", "g">>
  /\ listeners = <<"delG">>

\* a later pass, started after g was removed during a pass
C5_WitnessLater ==
  /\ last.op = "return"
  /\ "g" \in last.pass.gone
  /\ last.pass.atStart # << >>

(***************************************************************************)
(* C6: an update whose recipe throws throws to its caller and leaves the   *)
(* cell as it was: get() is the value held before, an object with the      *)
(* content it had, the listener list is the same and no listener is        *)
(* called.                                                                 *)
(***************************************************************************)
C6_ThrowingRecipe ==
  (last.op = "update" /\ RecipeThrows(last.argR)) =>
    /\ last.flag
    /\ get = last.preValue
    /\ heap[get] = last.preContent
    /\ listeners = last.preListeners
    /\ Len(stack) = last.preDepth

\* a throwing recipe that wrote to its draft first, with listeners registered
C6_Witness ==
  /\ last.op = "update"
  /\ last.flag
  /\ ApplyRecipe(last.argR, last.preContent) # last.preContent
  /\ listeners # << >>

(***************************************************************************)
(* C7: update(recipe) is set(v') for v' the recipe applied to a copy of    *)
(* the value: after update(d => d.x = 5) on {x:1, y:2} the cell holds      *)
(* another object, {x:5, y:2}, a pass has started with the old object as   *)
(* old value, and the old object still is {x:1, y:2}; a recipe that        *)
(* changes nothing keeps the object and starts no pass.                    *)
(***************************************************************************)
C7_UpdateIsSetOfDraft ==
  (last.op = "update" /\ ~RecipeThrows(last.argR)) =>
    LET expected == IF last.argR = "setX5" THEN [last.preContent EXCEPT !.x = 5]
                    ELSE last.preContent
    IN /\ ~last.flag
       /\ heap[value] = expected
       /\ heap[last.preValue] = last.preContent
       /\ listeners = last.preListeners
       /\ IF expected # last.preContent
          THEN value # last.preValue /\ StartedPass(last.preValue) /\ Top.nv = value
          ELSE NoEffect

\* update(d => d.x = 5) on {x:1, y:2} with listeners registered
C7_Witness ==
  /\ last.op = "update"
  /\ last.argR = "setX5"
  /\ last.preContent = [x |-> 1, y |-> 2]
  /\ heap[value] = [x |-> 5, y |-> 2]
  /\ listeners # << >>

(***************************************************************************)
(* C8 as claimed: the first call of the handle returned by subscribe(f)    *)
(* does what unsubscribe(f) does, and a later call of the same handle      *)
(* leaves the listener list as it is.                                      *)
(***************************************************************************)
C8_HandleIdempotent ==
  last.op = "handle" =>
    /\ RemovedFirst(last.preListeners, listeners, last.argL)
    /\ last.flag => listeners = last.preListeners

(***************************************************************************)
(* C9: unsubscribe(f) removes the first entry identical to f and nothing   *)
(* else, keeping the order of the others; without such an entry it changes *)
(* nothing; it never changes the value nor calls a listener; right after   *)
(* subscribe(f) it brings the list back to the length it had before.       *)
(***************************************************************************)
C9_UnsubscribeRemovesFirst ==
  last.op = "unsubscribe" =>
    /\ RemovedFirst(last.preListeners, listeners, last.argL)
    /\ Len(listeners) >= Len(last.preListeners) - 1
    /\ value = last.preValue
    /\ Len(stack) = last.preDepth
    /\ last.pSub = last.argL => Len(listeners) = last.pLen

\* f registered twice with another listener in between: only the first goes
C9_Witness ==
  /\ last.op = "unsubscribe"
  /\ Len(last.preListeners) = 3
  /\ last.preListeners[1] = last.argL
  /\ last.preListeners[2] # last.argL
  /\ last.preListeners[3] = last.argL

\* unsubscribe(f) right after subscribe(f), other listeners being registered
C9_WitnessAfterSubscribe ==
  /\ last.op = "unsubscribe"
  /\ last.pSub = last.argL
  /\ last.pLen > 0

(***************************************************************************)
(* C10: deserialize(serialize()) leaves the value as it is and calls no    *)
(* listener; serialize() returns the held value and changes nothing;       *)
(* deserialize(v) with another v stores v and starts a pass as set(v)      *)
(* does, which calls every registered listener once.                       *)
(***************************************************************************)
C10_PersistenceRoundTrip ==
  /\ last.op = "roundtrip" => NoEffect
  /\ last.op = "serialize" => NoEffect /\ last.argV = value
  /\ (last.op = "deserialize" /\ last.argV # last.preValue) =>
       /\ value = last.argV
       /\ listeners = last.preListeners
       /\ StartedPass(last.preValue)
       /\ Top.by = "deserialize"
  /\ \A p \in Returned : p.by = "deserialize" => CalledListeners(p) = p.atStart

\* deserialize(serialize()) with listeners registered
C10_Witness ==
  /\ last.op = "roundtrip"
  /\ last.argV = last.preValue
  /\ listeners # << >>

\* the pass of a deserialize has returned
C10_WitnessPass ==
  /\ last.op = "return"
  /\ last.pass.by = "deserialize"
  /\ Len(last.pass.atStart) > 1

(***************************************************************************)
(* C12: a listener that throws is not masked.  The failure reaches the     *)
(* host that made the top-level call at once (the whole call chain is      *)
(* unwound, nothing is left running), and the pass the listener ran in     *)
(* stops there: what it has called is the start of its snapshot up to and  *)
(* including the listener that threw, and no entry after it is called.     *)
(***************************************************************************)
C12_ThrowPropagatesFailFast ==
  last.op = "throw" =>
    /\ last.flag
    /\ stack = << >>
    /\ Len(last.pass.called) >= 1
    /\ Len(last.pass.called) <= Len(last.pass.atStart)
    /\ CalledListeners(last.pass) = SubSeq(last.pass.atStart, 1, Len(last.pass.called))
    /\ last.pass.called[Len(last.pass.called)].l = last.argL

\* a listener threw with entries of the snapshot still to call
C12_Witness ==
  /\ last.op = "throw"
  /\ last.flag
  /\ Len(last.pass.called) < Len(last.pass.atStart)

\* a listener threw inside a pass that a listener of an outer pass started
C12_WitnessNested ==
  /\ last.op = "throw"
  /\ last.preDepth > 2

(***************************************************************************)
(* One observer.  The listener g, while it is registered exactly once, no  *)
(* listener has changed the cell and no call has thrown: the pair it       *)
(* received last (new, old), the first argument of the pair before that    *)
(* (before; the value at subscription time when there was none), the       *)
(* number n of pairs received (counted up to 2), and the number of         *)
(* value-changing top-level calls whose pair it has not received yet       *)
(* (owed).  Tracking stops (on = FALSE) when g is subscribed again or      *)
(* unsubscribed, when a listener changes the cell, and when a call throws. *)
(***************************************************************************)
Observer == "g"

ObsListener == {"g", "setter", "thrower"}

NoTrk == [on |-> FALSE, n |-> 0, new |-> 0, old |-> 0, before |-> 0, owed |-> 0]

\* the calls that reach set
Mutators == {"set", "deserialize", "update", "roundtrip"}

\* what the observer has seen after the step recorded in last'
Track ==
  LET s == last'
      pass == stack'[Len(stack') - 1]
      got == pass.called[Len(pass.called)]
  IN CASE s.op = "subscribe" /\ s.argL = Observer ->
            IF Count(s.preListeners, Observer) = 0 /\ Count(listeners', Observer) = 1
            THEN [on |-> TRUE, n |-> 0, new |-> value', old |-> 0, before |-> 0,
                  owed |-> 0]
            ELSE NoTrk
       [] s.op = "unsubscribe" /\ s.argL = Observer -> NoTrk
       [] s.op = "throw" -> NoTrk
       [] s.op \in Mutators /\ value' # s.preValue /\ s.preDepth > 0 -> NoTrk
       [] s.op \in Mutators /\ value' # s.preValue /\ s.preDepth = 0 /\ trk.on ->
            [trk EXCEPT !.owed = IF @ < 2 THEN @ + 1 ELSE @]
       [] s.op = "invoke" /\ s.argL = Observer /\ trk.on ->
            [trk EXCEPT !.before = trk.new, !.new = got.a1, !.old = got.a2,
                        !.n = IF @ < 2 THEN @ + 1 ELSE @,
                        !.owed = IF @ > -1 THEN @ - 1 ELSE @]
       [] OTHER -> trk

(***************************************************************************)
(* C11: a listener subscribed once and staying subscribed, over top-level  *)
(* set/update/deserialize calls during which no listener changes the cell  *)
(* and no call throws, receives exactly one pair per value-changing call   *)
(* and none for the others (owed is 1 from the call to its pair and 0      *)
(* when the call is over), each pair's second argument is the first        *)
(* argument of the pair before it (of the value at subscription time for   *)
(* the first pair), and between calls the first argument of the last pair  *)
(* is what get() returns.                                                  *)
(***************************************************************************)
C11_ObserverSeesChain ==
  trk.on =>
    /\ trk.owed \in {0, 1}
    /\ (trk.n > 0 => trk.old = trk.before)
    /\ (Idle => trk.owed = 0 /\ trk.new = get)

\* the observer has received two pairs and the second call is over
C11_Witness ==
  /\ trk.on
  /\ trk.n = 2
  /\ Idle
  /\ last.op = "return"

\* after a pair, a top-level set of the value held gave the observer nothing
C11_WitnessNoChange ==
  /\ trk.on
  /\ trk.n = 1
  /\ Idle
  /\ last.op = "set"
  /\ last.argV = last.preValue

(***************************************************************************)
(* One top-level call and what the listeners have seen of it.  From a      *)
(* value-changing call of the host to the step after its return: the       *)
(* listeners that were registered when the call was made and have not      *)
(* lost their last registration since (reg), and for every listener the    *)
(* first argument of its latest invocation in the call (recent, 0 when it  *)
(* has not been invoked).  A throw and the next step of the host end it.   *)
(***************************************************************************)
NoConv == [open |-> FALSE, reg |-> {}, recent |-> [l \in Listener |-> 0]]

\* the record after the step recorded in last'
Converge ==
  LET s == last'
  IN CASE s.op \in Mutators /\ s.preDepth = 0 /\ value' # s.preValue ->
            [open |-> TRUE,
             reg |-> {s.preListeners[i] : i \in 1..Len(s.preListeners)},
             recent |-> [l \in Listener |-> 0]]
       [] s.op = "throw" -> NoConv
       [] s.preDepth = 0 /\ ~(s.op \in Mutators /\ value' # s.preValue) -> NoConv
       [] s.op = "invoke" /\ conv.open ->
            [conv EXCEPT !.recent[s.argL] = s.argV]
       [] s.op = "unsubscribe" /\ conv.open /\ Count(listeners', s.argL) = 0 ->
            [conv EXCEPT !.reg = @ \ {s.argL}]
       [] OTHER -> conv

(***************************************************************************)
(* C18: when a top-level set returns normally, also when listeners have    *)
(* called set from inside their callbacks, every listener that was         *)
(* registered before the call and stayed registered throughout has been    *)
(* invoked, and the first argument of its latest invocation is the value   *)
(* get() returns after the call.                                           *)
(***************************************************************************)
C18_Convergence ==
  (conv.open /\ Idle /\ last.op = "return") =>
    \A l \in conv.reg : conv.recent[l] = get

\* a top-level set returned after a listener had called set inside it, with
\* a listener that was called before and after the inner set
C18_Witness ==
  /\ conv.open /\ Idle /\ last.op = "return"
  /\ last.pass.changed
  /\ last.pass.nv # get
  /\ "g" \in conv.reg
  /\ "setter" \in conv.reg

(***************************************************************************)
(* useValue(atom, defaultValue) in one component, which is rendered with   *)
(* one of two cells or with none.  A cell here is a value and a listener   *)
(* list; its listeners are the component's setLocalValue and listeners of  *)
(* other parties, which call nothing back.  The component: the atom of its *)
(* last render (prop), the atom its effect has subscribed to (eff), whether*)
(* a render is committed whose effect has not run yet (pending), the state *)
(* localValue that useValue returns, and the step just taken with the      *)
(* listener lists and the localValue it found.                             *)
(***************************************************************************)
MaxValue == 1

Cell == {"A", "B"}

CellValue == 0..MaxValue

InitCells == [c \in Cell |-> [value |-> 0, listeners |-> << >>]]

Lists(cs) == [c \in Cell |-> cs[c].listeners]

NoHook ==
  [mounted |-> FALSE, prop |-> "none", eff |-> "none", pending |-> FALSE,
   local |-> 0, fallback |-> 0, op |-> "new", pre |-> Lists(InitCells),
   preLocal |-> 0]

HookStep(op) == [hook EXCEPT !.op = op, !.pre = Lists(cells), !.preLocal = hook.local]

\* first render: useState(atom ? atom.get() : defaultValue)
Mount(a, d) ==
  /\ ~hook.mounted
  /\ hook' = [HookStep("mount") EXCEPT
                !.mounted = TRUE, !.prop = a, !.fallback = d, !.pending = TRUE,
                !.local = IF a # "none" THEN cells[a].value ELSE d]
  /\ UNCHANGED cells

\* a later render with another atom: useState keeps the state it has, the
\* effect is scheduled again because its dependency [atom] changed
Rerender(a) ==
  /\ hook.mounted /\ ~hook.pending
  /\ a # hook.prop
  /\ hook' = [HookStep("render") EXCEPT !.prop = a, !.pending = TRUE]
  /\ UNCHANGED cells

\* the cleanup of the effect that ran last: unsubscribe(setLocalValue)
Cleanup(cs) ==
  IF hook.eff # "none"
  THEN [cs EXCEPT ![hook.eff].listeners = unsubscribe(@, "setLocalValue")]
  ELSE cs

\* (variant: the effect subscribes without reading the cell again)
RunEffectNoRefetch ==
  /\ hook.mounted /\ hook.pending
  /\ LET cs == Cleanup(cells)
         a == hook.prop
     IN IF a = "none"
        THEN /\ cells' = cs
             /\ hook' = [HookStep("effect") EXCEPT !.eff = "none", !.pending = FALSE]
        ELSE /\ cells' = [cs EXCEPT ![a].listeners = subscribe(@, "setLocalValue")]
             /\ hook' = [HookStep("effect") EXCEPT !.eff = a, !.pending = FALSE]

\* the effects of the committed render run: the cleanup of the previous
\* effect, then the effect: setLocalValue(atom.get()); subscribe(setLocalValue)
RunEffect ==
  /\ hook.mounted /\ hook.pending
  /\ LET cs == Cleanup(cells)
         a == hook.prop
     IN IF a = "none"
        THEN /\ cells' = cs
             /\ hook' = [HookStep("effect") EXCEPT !.eff = "none", !.pending = FALSE]
        ELSE /\ cells' = [cs EXCEPT ![a].listeners = subscribe(@, "setLocalValue")]
             /\ hook' = [HookStep("effect") EXCEPT
                           !.eff = a, !.pending = FALSE, !.local = cs[a].value]

\* the component goes away: the cleanup of the effect runs
Unmount ==
  /\ hook.mounted /\ ~hook.pending
  /\ cells' = Cleanup(cells)
  /\ hook' = [HookStep("unmount") EXCEPT !.mounted = FALSE, !.eff = "none"]

\* somebody calls set(v) on a cell: a changed value is stored and every
\* listener is called with it, setLocalValue among them
CellSet(c, v) ==
  /\ cells' = [cells EXCEPT ![c].value = v]
  /\ hook' = [HookStep("set") EXCEPT
                !.local = IF /\ SetChanges(v, cells[c].value)
                             /\ Count(cells[c].listeners, "setLocalValue") > 0
                          THEN v ELSE @]

\* another party subscribes its listener to a cell, or unsubscribes it
OtherSubscribes(c) ==
  /\ Len(cells[c].listeners) < MaxListeners - 1
  /\ cells' = [cells EXCEPT ![c].listeners = subscribe(@, "other")]
  /\ hook' = HookStep("other")

OtherUnsubscribes(c) ==
  /\ Count(cells[c].listeners, "other") > 0
  /\ cells' = [cells EXCEPT ![c].listeners = unsubscribe(@, "other")]
  /\ hook' = HookStep("other")

\* what useValue returns in a render
useValue == hook.local

\* a listener list without the component's own listener
Others(ls) == SelectSeq(ls, LAMBDA l : l # "setLocalValue")

\* the subscriptions of a binding: its listener is registered once on the
\* cell its effect was set up for and on no other cell; once the effect of a
\* render has run that cell is the atom of the render; an unmounted
\* component is registered nowhere; and the effect and the unmount leave the
\* listeners of other parties as they were, in their order
SubscriptionLifetime ==
  /\ \A c \in Cell :
       Count(cells[c].listeners, "setLocalValue") = IF hook.eff = c THEN 1 ELSE 0
  /\ (hook.mounted /\ ~hook.pending => hook.eff = hook.prop)
  /\ (~hook.mounted => hook.eff = "none")
  /\ (hook.op \in {"mount", "render", "effect", "unmount"} =>
        \A c \in Cell : Others(cells[c].listeners) = Others(hook.pre[c]))

\* rendered with no cell, useValue returns the fallback
NoCellGivesFallback ==
  hook.mounted /\ hook.prop = "none" => useValue = hook.fallback

(***************************************************************************)
(* C13: a useValue binding holds exactly one subscription on its cell from *)
(* the moment its effect has run until the binding ends or the cell        *)
(* reference changes (then it leaves the old cell and joins the new one),  *)
(* mount followed by unmount leaves the listener list as it was, and when  *)
(* no cell is supplied it returns the fallback and never subscribes.       *)
(***************************************************************************)
C13_OneSubscription ==
  /\ SubscriptionLifetime
  /\ NoCellGivesFallback

(***************************************************************************)
(* C14: no stale read.  Once the effect of a render with a cell has run,   *)
(* the local value of the binding is what get() of that cell returns, and  *)
(* it is so again after every set on the cell while the binding is         *)
(* mounted, whatever was set between the first read and the effect.        *)
(***************************************************************************)
C14_NoStaleRead ==
  (hook.mounted /\ ~hook.pending /\ hook.prop # "none") =>
    useValue = cells[hook.prop].value

\* the cell was set between the first read and the effect, and the effect
\* brought the local value up to date
C14_Witness ==
  /\ hook.op = "effect"
  /\ hook.prop # "none"
  /\ hook.local # hook.preLocal
  /\ hook.local = cells[hook.prop].value

\* a set on the cell after the effect reached the local value
C14_WitnessLaterSet ==
  /\ hook.op = "set"
  /\ hook.mounted /\ ~hook.pending /\ hook.prop # "none"
  /\ hook.local # hook.preLocal

(***************************************************************************)
(* A table plugin made by createTablePlugin(props): whether props.key and  *)
(* props.resetMethod are given, the rows of its data source, the cell      *)
(* isPaused, the set unhandledMessagesSeen, how many warnings have been    *)
(* shown for each message name (counted up to 2), the names of the         *)
(* unhandled messages received, the record of the last message the handler *)
(* let go by while paused (lost), and the step just taken with its         *)
(* argument and the rows, pause flag and warning counts it found.          *)
(***************************************************************************)
MaxRows == 2
MaxKey == 2

Key == 1..MaxKey

\* the records a message carries; buildRow is taken to keep them as they are
Record == [key : Key, data : {"a", "b"}]

\* the data of a message on resetMethod: a list of records
ResetData == {<<>>} \cup {<<r>> : r \in Record}

MessageName == {"m1", "m2"}

Params == {"p", "q"}

\* DataSource.append
append(rows, r) == Append(rows, r)

\* DataSource.upsert: the row of the same key is replaced where it is, a
\* record of a new key is appended
upsert(rows, r) ==
  IF \E i \in 1..Len(rows) : rows[i].key = r.key
  THEN [i \in 1..Len(rows) |-> IF rows[i].key = r.key THEN r ELSE rows[i]]
  ELSE Append(rows, r)

\* DataSource.clear
clear(rows) == << >>

\* the rows built from the data of a message
BuildRows(data) == data

NoWarnings == [n \in MessageName |-> 0]

TableOf(keyed, reset) ==
  [keyed |-> keyed, reset |-> reset, rows |-> << >>, isPaused |-> FALSE,
   unhandledMessagesSeen |-> {}, warned |-> NoWarnings, got |-> {},
   lost |-> << >>,
   op |-> "new", argRecord |-> << >>, argName |-> "none",
   preRows |-> << >>, prePaused |-> FALSE, preWarned |-> NoWarnings]

NoTable == TableOf(FALSE, FALSE)

TableStep(op, rec, name) ==
  [table EXCEPT !.op = op, !.argRecord = rec, !.argName = name,
                !.preRows = table.rows, !.prePaused = table.isPaused,
                !.preWarned = table.warned]

\* (variant: the handler does not look at isPaused)
OnMessageUnpausable(r) ==
  /\ Len(table.rows) < MaxRows
  /\ table' = [TableStep("message", <<r>>, "none") EXCEPT
                 !.rows = IF table.keyed THEN upsert(@, r) ELSE append(@, r)]

\* a message on props.method arrives
OnMessage(r) ==
  /\ Len(table.rows) < MaxRows
  /\ table' = IF table.isPaused
              THEN [TableStep("message", <<r>>, "none") EXCEPT !.lost = <<r>>]
              ELSE [TableStep("message", <<r>>, "none") EXCEPT
                      !.rows = IF table.keyed THEN upsert(@, r) ELSE append(@, r)]

\* a message on props.resetMethod arrives: the handler calls clear()
OnReset(data) ==
  /\ table.reset
  /\ table' = [TableStep("reset", data, "none") EXCEPT !.rows = clear(@)]

\* the menu entry 'clear'
Clear ==
  /\ table' = [TableStep("clear", << >>, "none") EXCEPT !.rows = clear(@)]

\* resumePause: isPaused.update((v) => !v)
ResumePause ==
  /\ table' = [TableStep("resumePause", << >>, "none") EXCEPT !.isPaused = ~@]

\* (variant: the handler keeps no set of the names it has seen)
OnUnhandledMessageForgetful(m, params) ==
  /\ table' = [TableStep("unhandled", << >>, m) EXCEPT
                 !.got = @ \cup {m},
                 !.warned[m] = IF @ < 2 THEN @ + 1 ELSE @]

\* a message nobody handles arrives: warn unless its name was seen before
OnUnhandledMessage(m, params) ==
  /\ table' = IF m \in table.unhandledMessagesSeen
              THEN [TableStep("unhandled", << >>, m) EXCEPT !.got = @ \cup {m}]
              ELSE [TableStep("unhandled", << >>, m) EXCEPT
                      !.got = @ \cup {m},
                      !.unhandledMessagesSeen = @ \cup {m},
                      !.warned[m] = IF @ < 2 THEN @ + 1 ELSE @]

(***************************************************************************)
(* C15: in a table plugin with a resetMethod, a message on resetMethod     *)
(* replaces the rows with the data of the message: after it the rows are   *)
(* exactly the rows built from that data.                                  *)
(***************************************************************************)
C15_ResetReplacesRows ==
  table.op = "reset" => table.rows = BuildRows(table.argRecord)

C17_WitnessResumed ==
  /\ table.op = "resumePause"
  /\ ~table.isPaused
  /\ table.lost # << >>
  /\ Len(table.rows) = 1
  /\ table.rows[1] # table.lost[1]

\* a message on a key the table holds already replaced that row
C17_WitnessUpsert ==
  /\ table.op = "message"
  /\ ~table.prePaused
  /\ table.keyed
  /\ Len(table.rows) = Len(table.preRows)
  /\ table.rows # table.preRows

(***************************************************************************)
(* C20: over any sequence of unhandled messages the warning is shown       *)
(* exactly once for each message name received: at its first occurrence,   *)
(* and not again, whatever the parameters.                                 *)
(***************************************************************************)
C20_WarnOncePerName ==
  /\ \A n \in MessageName :
       table.warned[n] = IF n \in table.got THEN 1 ELSE 0
  /\ (table.op = "unhandled" =>
        \A n \in MessageName :
          table.warned[n] = IF n = table.argName /\ table.preWarned[n] = 0
                            THEN 1 ELSE table.preWarned[n])

\* a message name arrived again and was not warned about again
C20_Witness ==
  /\ table.op = "unhandled"
  /\ table.preWarned[table.argName] = 1
  /\ table.warned = table.preWarned

(***************************************************************************)
(* The two functions on the handshake of a client.  A medium is undefined  *)
(* or a number; a query is an object with the fields of SecureClientQuery  *)
(* that matter here, its csr being undefined, the empty string or a        *)
(* certificate signing request.  The state holds the arguments drawn, the  *)
(* query objects as they are now, and the results once the calls are made. *)
(***************************************************************************)
MaxMedium == 4

Medium ==
  {[def |-> FALSE, n |-> 0]} \cup [def : {TRUE}, n : (-1)..MaxMedium]

Undefined == "undefined"

Csr == {Undefined, "", "csrA", "csrB"}

Field == {"app", "os", "csr", "csr_path"}

Query ==
  [app : {"app1", "app2"}, os : {"Android", "iOS"}, csr : Csr,
   csr_path : {Undefined, "/path"}]

Returns(t) == [threw |-> FALSE, type |-> t, message |-> << >>]

Throws(msg) == [threw |-> TRUE, type |-> "none", message |-> msg]

\* (variant: the default branch returns 'NONE')
transformLenient(medium) ==
  CASE ~medium.def -> Returns("FS_ACCESS")
    [] medium.def /\ medium.n = 1 -> Returns("FS_ACCESS")
    [] medium.def /\ medium.n = 2 -> Returns("WWW")
    [] OTHER -> Returns("NONE")

\* the switch on medium
transformCertificateExchangeMediumToType(medium) ==
  CASE ~medium.def -> Returns("FS_ACCESS")
    [] medium.def /\ medium.n = 1 -> Returns("FS_ACCESS")
    [] medium.def /\ medium.n = 2 -> Returns("WWW")
    [] medium.def /\ medium.n = 3 -> Returns("NONE")
    [] OTHER -> Throws(<<"Unknown Certificate exchange medium: ", medium.n>>)

\* !csr in JavaScript: true of undefined and of the empty string
Falsy(csr) == csr = Undefined \/ csr = ""

\* (variant: the copy keeps the csr)
cloneKeepingCsr(clientQuery) ==
  [out |-> clientQuery, arg |-> clientQuery]

\* {...clientQuery, csr: !clientQuery.csr ? clientQuery.csr : '<hidden>'}:
\* the object returned (out) and the argument object after the call (arg)
cloneClientQuerySafeForLogging(clientQuery) ==
  [out |-> [f \in Field |->
              IF f = "csr"
              THEN IF Falsy(clientQuery.csr) THEN clientQuery.csr ELSE "<hidden>"
              ELSE clientQuery[f]],
   arg |-> clientQuery]

NoResult == Returns("none")

NoPure ==
  [medium |-> [def |-> FALSE, n |-> 0], result |-> NoResult, tDone |-> FALSE,
   q0 |-> [app |-> "app1", os |-> "iOS", csr |-> Undefined, csr_path |-> Undefined],
   q |-> [app |-> "app1", os |-> "iOS", csr |-> Undefined, csr_path |-> Undefined],
   out |-> [app |-> "app1", os |-> "iOS", csr |-> Undefined, csr_path |-> Undefined],
   r0 |-> [app |-> "app1", os |-> "iOS", csr |-> Undefined, csr_path |-> Undefined],
   rOut |-> [app |-> "app1", os |-> "iOS", csr |-> Undefined, csr_path |-> Undefined],
   cDone |-> FALSE]

\* a medium, a query, and a second query that differs from it in csr at most
PureOf(m, q, c) ==
  [NoPure EXCEPT !.medium = m, !.q0 = q, !.q = q, !.r0 = [q EXCEPT !.csr = c]]

\* the call transformCertificateExchangeMediumToType(medium)
Transform ==
  /\ ~pure.tDone
  /\ pure' = [pure EXCEPT
                !.tDone = TRUE,
                !.result = transformCertificateExchangeMediumToType(pure.medium)]

\* the calls cloneClientQuerySafeForLogging(q) and (r)
Clone ==
  /\ ~pure.cDone
  /\ pure' = [pure EXCEPT
                !.cDone = TRUE,
                !.out = cloneClientQuerySafeForLogging(pure.q0).out,
                !.q = cloneClientQuerySafeForLogging(pure.q0).arg,
                !.rOut = cloneClientQuerySafeForLogging(pure.r0).out]

(***************************************************************************)
(* C16: transformCertificateExchangeMediumToType returns 'FS_ACCESS' for   *)
(* undefined and for 1, 'WWW' for 2, 'NONE' for 3, and for every other     *)
(* number returns nothing and throws an error whose message names          *)
(* 'Unknown Certificate exchange medium'.                                  *)
(***************************************************************************)
C16_MediumToType ==
  pure.tDone =>
    /\ (~pure.medium.def => pure.result = Returns("FS_ACCESS"))
    /\ (pure.medium.def /\ pure.medium.n = 1 => pure.result = Returns("FS_ACCESS"))
    /\ (pure.medium.def /\ pure.medium.n = 2 => pure.result = Returns("WWW"))
    /\ (pure.medium.def /\ pure.medium.n = 3 => pure.result = Returns("NONE"))
    /\ (pure.medium.def /\ pure.medium.n \notin {1, 2, 3} =>
          /\ pure.result.threw
          /\ pure.result.type = "none"
          /\ pure.result.message[1] = "Unknown Certificate exchange medium: ")

\* a number above the known ones was passed, and the call threw
C16_Witness ==
  /\ pure.tDone
  /\ pure.medium.def
  /\ pure.medium.n > 3
  /\ pure.result.threw

\* undefined was passed
C16_WitnessUndefined ==
  /\ pure.tDone
  /\ ~pure.medium.def
  /\ pure.result.type = "FS_ACCESS"

(***************************************************************************)
(* C19: cloneClientQuerySafeForLogging never exposes a CSR.  The csr of    *)
(* the result is '<hidden>' when the csr of the query is a non-empty       *)
(* string and is the csr of the query when that is empty or undefined,     *)
(* every other field of the result is the query's, the query is not        *)
(* modified, and two queries that differ only in a non-empty csr give the  *)
(* same result.                                                            *)
(***************************************************************************)
C19_CsrHidden ==
  pure.cDone =>
    /\ pure.out.csr = IF Falsy(pure.q0.csr) THEN pure.q0.csr ELSE "<hidden>"
    /\ pure.out.csr \notin {"csrA", "csrB"}
    /\ \A f \in Field \ {"csr"} : pure.out[f] = pure.q0[f]
    /\ pure.q = pure.q0
    /\ (~Falsy(pure.q0.csr) /\ ~Falsy(pure.r0.csr) => pure.rOut = pure.out)

\* two queries with different csrs were cloned
C19_Witness ==
  /\ pure.cDone
  /\ ~Falsy(pure.q0.csr) /\ ~Falsy(pure.r0.csr)
  /\ pure.q0.csr # pure.r0.csr
  /\ pure.out.csr = "<hidden>"

\* a query with an empty csr was cloned
C19_WitnessEmpty ==
  /\ pure.cDone
  /\ pure.q0.csr = ""
  /\ pure.out = pure.q0

(***************************************************************************)
(* The specifications.  Each one runs one part of the program and leaves   *)
(* the state of the other parts alone.                                     *)
(***************************************************************************)
Init ==
  /\ AtomInit
  /\ trk = NoTrk
  /\ conv = NoConv
  /\ cells = InitCells
  /\ hook = NoHook
  /\ table = NoTable
  /\ pure = NoPure

\* a step of the cell alone
AtomOnly == UNCHANGED <<trk, conv, cells, hook, table, pure>>

\* a host that keeps no handles
Next ==
  \/ AtomOnly /\ \E v \in Refs : Set(v)
  \/ AtomOnly /\ \E v \in Refs : Deserialize(v)
  \/ AtomOnly /\ Serialize
  \/ AtomOnly /\ RoundTrip
  \/ AtomOnly /\ \E r \in Recipe : Update(r)
  \/ AtomOnly /\ \E l \in Listener : Subscribe(l, FALSE)
  \/ AtomOnly /\ \E l \in Listener : Unsubscribe(l)
  \/ AtomOnly /\ Running

Spec == Init /\ [][Next]_vars

\* a host that keeps handles, and calls them
NextHandles ==
  \/ AtomOnly /\ \E v \in Refs : Set(v)
  \/ AtomOnly /\ \E l \in Listener, keep \in BOOLEAN : Subscribe(l, keep)
  \/ AtomOnly /\ \E l \in Listener : Unsubscribe(l)
  \/ AtomOnly /\ \E i \in 1..MaxHandles : CallHandle(i)
  \/ AtomOnly /\ \E i \in 1..MaxHandles : DropHandle(i)
  \/ AtomOnly /\ Running

SpecHandles == Init /\ [][NextHandles]_vars

\* a step of the cell with the observer watching
Observed == trk' = Track /\ UNCHANGED <<conv, cells, hook, table, pure>>

\* a host with listeners that subscribe to nothing and unsubscribe nothing
NextObserver ==
  \/ (\E v \in Refs : Set(v)) /\ Observed
  \/ (\E v \in Refs : Deserialize(v)) /\ Observed
  \/ (\E r \in Recipe : Update(r)) /\ Observed
  \/ (\E l \in ObsListener : Subscribe(l, FALSE)) /\ Observed
  \/ (\E l \in ObsListener : Unsubscribe(l)) /\ Observed
  \/ InvokeNext /\ Observed
  \/ PassReturn /\ Observed
  \/ ListenerSets /\ Observed
  \/ ListenerThrows /\ Observed
  \/ ListenerReturn /\ Observed

SpecObserver == Init /\ [][NextObserver]_vars

\* a step of the cell with the record of the top-level call kept
Converging == conv' = Converge /\ UNCHANGED <<trk, cells, hook, table, pure>>

\* a host that calls set, with listeners of every kind
NextConverge ==
  \/ (\E v \in Refs : Set(v)) /\ Converging
  \/ (\E l \in Listener : Subscribe(l, FALSE)) /\ Converging
  \/ (\E l \in Listener : Unsubscribe(l)) /\ Converging
  \/ Running /\ Converging

SpecConverge == Init /\ [][NextConverge]_vars

\* a step of the component and its cells
HookOnly == UNCHANGED <<atomVars, trk, conv, table, pure>>

NextHook ==
  \/ HookOnly /\ \E a \in Cell \cup {"none"}, d \in CellValue : Mount(a, d)
  \/ HookOnly /\ \E a \in Cell \cup {"none"} : Rerender(a)
  \/ HookOnly /\ RunEffect
  \/ HookOnly /\ Unmount
  \/ HookOnly /\ \E c \in Cell, v \in CellValue : CellSet(c, v)
  \/ HookOnly /\ \E c \in Cell : OtherSubscribes(c)
  \/ HookOnly /\ \E c \in Cell : OtherUnsubscribes(c)

SpecHook == Init /\ [][NextHook]_vars

\* a table plugin made with any props, freshly activated
InitTable ==
  /\ AtomInit
  /\ trk = NoTrk
  /\ conv = NoConv
  /\ cells = InitCells
  /\ hook = NoHook
  /\ table \in {TableOf(k, r) : k \in BOOLEAN, r \in BOOLEAN}
  /\ pure = NoPure

\* a step of the table plugin
TableOnly == UNCHANGED <<atomVars, trk, conv, cells, hook, pure>>

NextTable ==
  \/ TableOnly /\ \E r \in Record : OnMessage(r)
  \/ TableOnly /\ \E d \in ResetData : OnReset(d)
  \/ TableOnly /\ Clear
  \/ TableOnly /\ ResumePause
  \/ TableOnly /\ \E m \in MessageName, params \in Params : OnUnhandledMessage(m, params)

SpecTable == InitTable /\ [][NextTable]_vars

\* any medium and any two queries that differ in csr at most
InitQuery ==
  /\ AtomInit
  /\ trk = NoTrk
  /\ conv = NoConv
  /\ cells = InitCells
  /\ hook = NoHook
  /\ table = NoTable
  /\ pure \in {PureOf(m, q, c) : m \in Medium, q \in Query, c \in Csr}

\* a call of one of the two functions
QueryOnly == UNCHANGED <<atomVars, trk, conv, cells, hook, table>>

NextQuery ==
  \/ QueryOnly /\ Transform
  \/ QueryOnly /\ Clone

SpecQuery == InitQuery /\ [][NextQuery]_vars

====
